---------------------------- MODULE Spec2Model ----------------------------
(***************************************************************************)
(* Model of backend/utils/pdfDarkMode.py: the colour policy                *)
(* (_transform_rgb, _transform_grayscale, _transform_cmyk with the HSV     *)
(* helpers), the regular-expression rewriter of content streams            *)
(* (_transform_content_stream and the three _replace_* callbacks) and the  *)
(* conversion run (convert_file, convert_bytes, _process_page, main).      *)
(*                                                                         *)
(* Numbers.  Python floats are modelled as exact rationals <<n, d>> in     *)
(* lowest terms with d > 0.  Every arithmetic step of the source is kept,  *)
(* but IEEE-754 rounding is not modelled: a value is the real number the   *)
(* float approximates.                                                     *)
(*                                                                         *)
(* Text.  A content stream is a sequence of one-character strings.         *)
(***************************************************************************)
EXTENDS Integers, Sequences, FiniteSets, TLC

VARIABLES
    bg_color,     \* self.bg_color: <<r, g, b>> bytes 0..255
    call,         \* the last colour-policy call: [fn, in, out]
    content,      \* the text given to the rewriter (sequence of characters)
    passes,       \* the operator passes (1..6) already applied to it
    result,       \* the text after those passes
    caller,       \* who called convert_file: "none", "main" or "api"
    pc,           \* position of main / convert_file / convert_bytes
    doc,          \* the pages of the input document as read
    pages,        \* pdf.pages of the open document
    cur,          \* index of the page in _process_page
    half,         \* position inside _process_page (index in ProcessPageSteps)
    handed,       \* per page: the text handed to _transform_content_stream
    output_bytes, \* convert_bytes' return value: "none" or "pdf"
    outfile,      \* the output path: "absent", "empty" (opened 'wb') or "written"
    exitcode,     \* main's exit code, -1 while running
    raisedAt      \* the step that raised, or "none"

vars == <<bg_color, call, content, passes, result, caller, pc, doc, pages, cur, half,
          handed, output_bytes, outfile, exitcode, raisedAt>>

colorVars  == <<call>>
streamVars == <<content, passes, result>>
runVars    == <<caller, pc, doc, pages, cur, half, handed, output_bytes, outfile,
                exitcode, raisedAt>>

-----------------------------------------------------------------------------
(* Bounds of the model *)

\* RGB inputs are the points k/GridN, k \in 0..GridN, in each component
GridN == 10
\* Gray inputs are the points k/GrayN, k \in 0..GrayN
GrayN == 100
\* CMYK inputs are the points k/CmykN, k \in 0..CmykN, in each component
CmykN == 4
\* an input document has 1..MaxPages pages
MaxPages == 2

-----------------------------------------------------------------------------
(* Exact rational arithmetic standing for Python float arithmetic *)

\* the element of a one-element set: The({e(v) : v \in {d}}) is "let v = d in e(v)"
\* with d evaluated once
The(S) == CHOOSE x \in S : TRUE

RECURSIVE GCD(_, _)
GCD(a, b) == IF b = 0 THEN a ELSE GCD(b, a % b)

IAbs(a) == IF a < 0 THEN -a ELSE a

Rat(n, d) ==
    The({IF d < 0 THEN <<(-n) \div g, (-d) \div g>> ELSE <<n \div g, d \div g>> :
            g \in {GCD(IAbs(n), IAbs(d))}})

Int2R(i) == <<i, 1>>

RAdd(x, y) ==
    The({Rat(x[1] * (y[2] \div g) + y[1] * (x[2] \div g), x[2] * (y[2] \div g)) :
            g \in {GCD(x[2], y[2])}})

RSub(x, y) == RAdd(x, <<-y[1], y[2]>>)

RMul(x, y) ==
    The({<<a[1] * b[1], a[2] * b[2]>> : a \in {Rat(x[1], y[2])}, b \in {Rat(y[1], x[2])}})

\* x / y with y # 0 (Python raises ZeroDivisionError otherwise)
RDiv(x, y) == RMul(x, IF y[1] < 0 THEN <<-y[2], -y[1]>> ELSE <<y[2], y[1]>>)

RLt(x, y) ==
    The({x[1] * (y[2] \div g) < y[1] * (x[2] \div g) : g \in {GCD(x[2], y[2])}})

RLe(x, y) == ~RLt(y, x)
RGt(x, y) == RLt(y, x)
RGe(x, y) == ~RLt(x, y)

RMin(x, y) == IF RLt(y, x) THEN y ELSE x
RMax(x, y) == IF RLt(x, y) THEN y ELSE x
RMax3(x, y, z) == RMax(RMax(x, y), z)
RMin3(x, y, z) == RMin(RMin(x, y), z)
RAbs(x) == <<IAbs(x[1]), x[2]>>

\* Python's float x % m for an integer m > 0: the result lies in [0, m)
\* (\div rounds toward minus infinity, as math.floor does)
RModI(x, m) == RAdd(x, <<-(m * (x[1] \div (x[2] * m))), 1>>)

R0 == Int2R(0)
R1 == Int2R(1)

InUnit(x) == x[1] >= 0 /\ x[1] <= x[2]

-----------------------------------------------------------------------------
(* Colour transformation constants (module level of pdfDarkMode.py) *)

WHITE_BRIGHTNESS_THRESHOLD       == Rat(93, 100)
BLACK_BRIGHTNESS_THRESHOLD       == Rat(15, 100)
DARK_BRIGHTNESS_THRESHOLD        == Rat(4, 10)
MEDIUM_DARK_BRIGHTNESS_THRESHOLD == Rat(6, 10)
LOW_SATURATION_THRESHOLD         == Rat(3, 10)

BRIGHTNESS_WEIGHT_RED   == Rat(299, 1000)
BRIGHTNESS_WEIGHT_GREEN == Rat(587, 1000)
BRIGHTNESS_WEIGHT_BLUE  == Rat(114, 1000)

BRIGHT_WHITE_VALUE                == Rat(98, 100)
DARK_COLORED_MIN_VALUE            == Rat(65, 100)
DARK_COLORED_VALUE_RANGE          == Rat(2, 10)
DARK_COLORED_SATURATION_BOOST     == Rat(11, 10)
DARK_VALUE_BASE                   == Rat(75, 100)
DARK_VALUE_MULTIPLIER             == Rat(8, 10)
DARK_SATURATION_MULTIPLIER        == Rat(85, 100)
MEDIUM_DARK_VALUE_BASE            == Rat(65, 100)
MEDIUM_DARK_VALUE_MULTIPLIER      == Rat(1, 1)
MEDIUM_DARK_SATURATION_MULTIPLIER == Rat(9, 10)
LIGHT_VALUE_BASE                  == Rat(5, 10)
LIGHT_VALUE_MULTIPLIER            == Rat(5, 10)

DEFAULT_BG_COLOR == <<0, 0, 0>>

\* self.bg_color[ch] / 255.0
BgChannel(i) == Rat(bg_color[i], 255)

-----------------------------------------------------------------------------
(* Colour-space math *)

calculate_brightness(r, g, b) ==
    RAdd(RAdd(RMul(BRIGHTNESS_WEIGHT_RED, r), RMul(BRIGHTNESS_WEIGHT_GREEN, g)),
         RMul(BRIGHTNESS_WEIGHT_BLUE, b))

\* returns <<h / 360.0, s, v>>
rgb_to_hsv(r, g, b) ==
    The({
        The({<<RDiv(IF diff = R0 THEN R0
                    ELSE IF max_val = r
                         THEN RModI(RAdd(RMul(Int2R(60), RDiv(RSub(g, b), diff)),
                                         Int2R(360)), 360)
                    ELSE IF max_val = g
                         THEN RModI(RAdd(RMul(Int2R(60), RDiv(RSub(b, r), diff)),
                                         Int2R(120)), 360)
                    ELSE RModI(RAdd(RMul(Int2R(60), RDiv(RSub(r, g), diff)),
                                    Int2R(240)), 360),
                    Int2R(360)),
               IF max_val = R0 THEN R0 ELSE RDiv(diff, max_val),
               max_val>> :
            diff \in {RSub(max_val, min_val)}}) :
        max_val \in {RMax3(r, g, b)}, min_val \in {RMin3(r, g, b)}})

hsv_to_rgb(h0, s, v) ==
    The({
        The({<<RAdd(rgb[1], m), RAdd(rgb[2], m), RAdd(rgb[3], m)>> :
            m \in {RSub(v, c)},
            rgb \in {The({
                IF RLe(R0, h) /\ RLt(h, Int2R(60))               THEN <<c, x, R0>>
                ELSE IF RLe(Int2R(60), h) /\ RLt(h, Int2R(120))  THEN <<x, c, R0>>
                ELSE IF RLe(Int2R(120), h) /\ RLt(h, Int2R(180)) THEN <<R0, c, x>>
                ELSE IF RLe(Int2R(180), h) /\ RLt(h, Int2R(240)) THEN <<R0, x, c>>
                ELSE IF RLe(Int2R(240), h) /\ RLt(h, Int2R(300)) THEN <<x, R0, c>>
                ELSE <<c, R0, x>> :
                x \in {RMul(c, RSub(R1, RAbs(RSub(RModI(RDiv(h, Int2R(60)), 2), R1))))}})}}) :
        h \in {RMul(h0, Int2R(360))}, c \in {RMul(v, s)}})

clamp_rgb(r, g, b) ==
    <<RMin(RMax(r, R0), R1), RMin(RMax(g, R0), R1), RMin(RMax(b, R0), R1)>>

-----------------------------------------------------------------------------
(* Colour transform policy *)

\* the number (1..6) of the rule _transform_rgb selects for a brightness and
\* a saturation, in its test order
RuleFor(brightness, s) ==
    IF RGt(brightness, WHITE_BRIGHTNESS_THRESHOLD) THEN 1
    ELSE IF RLt(brightness, BLACK_BRIGHTNESS_THRESHOLD)
            /\ RLt(s, LOW_SATURATION_THRESHOLD) THEN 2
    ELSE IF RLt(brightness, BLACK_BRIGHTNESS_THRESHOLD) THEN 3
    ELSE IF RLt(brightness, DARK_BRIGHTNESS_THRESHOLD) THEN 4
    ELSE IF RLt(brightness, MEDIUM_DARK_BRIGHTNESS_THRESHOLD) THEN 5
    ELSE 6

RgbRule(r, g, b) == RuleFor(calculate_brightness(r, g, b), rgb_to_hsv(r, g, b)[2])

transform_rgb(r, g, b) ==
    The({
        CASE rule = 1 -> <<BgChannel(1), BgChannel(2), BgChannel(3)>>
          [] rule = 2 -> <<BRIGHT_WHITE_VALUE, BRIGHT_WHITE_VALUE, BRIGHT_WHITE_VALUE>>
          [] rule = 3 ->
               The({clamp_rgb(n[1], n[2], n[3]) :
                    n \in {hsv_to_rgb(hsv[1],
                                      RMin(RMul(hsv[2], DARK_COLORED_SATURATION_BOOST), R1),
                                      RAdd(DARK_COLORED_MIN_VALUE,
                                           RMul(RDiv(hsv[3], BLACK_BRIGHTNESS_THRESHOLD),
                                                DARK_COLORED_VALUE_RANGE)))}})
          [] rule = 4 ->
               hsv_to_rgb(hsv[1], RMul(hsv[2], DARK_SATURATION_MULTIPLIER),
                          RAdd(DARK_VALUE_BASE,
                               RMul(RSub(hsv[3], BLACK_BRIGHTNESS_THRESHOLD),
                                    DARK_VALUE_MULTIPLIER)))
          [] rule = 5 ->
               hsv_to_rgb(hsv[1], RMul(hsv[2], MEDIUM_DARK_SATURATION_MULTIPLIER),
                          RAdd(MEDIUM_DARK_VALUE_BASE,
                               RMul(RSub(hsv[3], DARK_BRIGHTNESS_THRESHOLD),
                                    MEDIUM_DARK_VALUE_MULTIPLIER)))
          [] OTHER ->
               hsv_to_rgb(hsv[1], hsv[2],
                          RAdd(LIGHT_VALUE_BASE, RMul(hsv[3], LIGHT_VALUE_MULTIPLIER))) :
        hsv \in {rgb_to_hsv(r, g, b)},
        rule \in {RuleFor(calculate_brightness(r, g, b), rgb_to_hsv(r, g, b)[2])}})

\* GrayBand with the black threshold taken inclusively
GrayBandInclusive(gray) ==
    IF RGt(gray, WHITE_BRIGHTNESS_THRESHOLD) THEN 1
    ELSE IF RLe(gray, BLACK_BRIGHTNESS_THRESHOLD) THEN 2
    ELSE IF RLt(gray, DARK_BRIGHTNESS_THRESHOLD) THEN 3
    ELSE IF RLt(gray, MEDIUM_DARK_BRIGHTNESS_THRESHOLD) THEN 4
    ELSE 5

\* the band (1..5) _transform_grayscale selects, in its test order
GrayBand(gray) ==
    IF RGt(gray, WHITE_BRIGHTNESS_THRESHOLD) THEN 1
    ELSE IF RLt(gray, BLACK_BRIGHTNESS_THRESHOLD) THEN 2
    ELSE IF RLt(gray, DARK_BRIGHTNESS_THRESHOLD) THEN 3
    ELSE IF RLt(gray, MEDIUM_DARK_BRIGHTNESS_THRESHOLD) THEN 4
    ELSE 5

transform_grayscale(gray) ==
    The({
        CASE band = 1 ->
               RDiv(RAdd(RAdd(RMul(BRIGHTNESS_WEIGHT_RED, Int2R(bg_color[1])),
                              RMul(BRIGHTNESS_WEIGHT_GREEN, Int2R(bg_color[2]))),
                         RMul(BRIGHTNESS_WEIGHT_BLUE, Int2R(bg_color[3]))),
                    Int2R(255))
          [] band = 2 -> BRIGHT_WHITE_VALUE
          [] band = 3 -> RAdd(DARK_VALUE_BASE,
                              RMul(RSub(gray, BLACK_BRIGHTNESS_THRESHOLD),
                                   DARK_VALUE_MULTIPLIER))
          [] band = 4 -> RAdd(MEDIUM_DARK_VALUE_BASE,
                              RMul(RSub(gray, DARK_BRIGHTNESS_THRESHOLD),
                                   MEDIUM_DARK_VALUE_MULTIPLIER))
          [] OTHER -> RAdd(LIGHT_VALUE_BASE, RMul(gray, LIGHT_VALUE_MULTIPLIER)) :
        band \in {GrayBand(gray)}})

transform_cmyk(c, m, y, k) ==
    The({
        IF n[1] = R0 /\ n[2] = R0 /\ n[3] = R0 THEN <<R0, R0, R0, R1>>
        ELSE The({
            IF RLt(new_k, R1)
            THEN <<RDiv(RSub(RSub(R1, n[1]), new_k), RSub(R1, new_k)),
                   RDiv(RSub(RSub(R1, n[2]), new_k), RSub(R1, new_k)),
                   RDiv(RSub(RSub(R1, n[3]), new_k), RSub(R1, new_k)),
                   new_k>>
            ELSE <<R0, R0, R0, new_k>> :
            new_k \in {RSub(R1, RMax3(n[1], n[2], n[3]))}}) :
        n \in {transform_rgb(RMul(RSub(R1, c), RSub(R1, k)),
                             RMul(RSub(R1, m), RSub(R1, k)),
                             RMul(RSub(R1, y), RSub(R1, k)))}})

-----------------------------------------------------------------------------
(* Characters and the character classes of Python's re module *)

DigitChars == <<"0", "1", "2", "3", "4", "5", "6", "7", "8", "9">>

\* \d
IsDigit(ch) == \E d \in 1..10 : DigitChars[d] = ch

DigitValue(ch) == (CHOOSE d \in 1..10 : DigitChars[d] = ch) - 1

\* \s
IsSpace(ch) == ch \in {" ", "\t", "\n", "\r", "\f"}

Letters ==
    {"a", "b", "c", "d", "e", "f", "g", "h", "i", "j", "k", "l", "m",
     "n", "o", "p", "q", "r", "s", "t", "u", "v", "w", "x", "y", "z",
     "A", "B", "C", "D", "E", "F", "G", "H", "I", "J", "K", "L", "M",
     "N", "O", "P", "Q", "R", "S", "T", "U", "V", "W", "X", "Y", "Z"}

\* \w
IsWord(ch) == IsDigit(ch) \/ ch \in Letters \/ ch = "_"

-----------------------------------------------------------------------------
(* float(text) and the format specification .4f *)

RECURSIVE DigitsValue(_)
DigitsValue(t) ==
    IF t = <<>> THEN 0
    ELSE 10 * DigitsValue(SubSeq(t, 1, Len(t) - 1)) + DigitValue(t[Len(t)])

RECURSIVE Pow10(_)
Pow10(n) == IF n = 0 THEN 1 ELSE 10 * Pow10(n - 1)

\* float(t) for a text t that NUMBER_PATTERN matched
ParseFloat(t) ==
    IF \E i \in 1..Len(t) : t[i] = "."
    THEN The({RAdd(Int2R(DigitsValue(SubSeq(t, 1, dot - 1))),
                   Rat(DigitsValue(SubSeq(t, dot + 1, Len(t))), Pow10(Len(t) - dot))) :
              dot \in {i \in 1..Len(t) : t[i] = "."}})
    ELSE Int2R(DigitsValue(t))

RECURSIVE IntChars(_)
IntChars(n) ==
    IF n < 10 THEN <<DigitChars[n + 1]>>
    ELSE IntChars(n \div 10) \o <<DigitChars[(n % 10) + 1]>>

\* |x| * 10^digits rounded to an integer, ties to even, by long division
RECURSIVE ScaledDigits(_, _, _, _)
ScaledDigits(acc, rem, den, digits) ==
    IF digits = 0
    THEN IF 2 * rem > den \/ (2 * rem = den /\ acc % 2 = 1) THEN acc + 1 ELSE acc
    ELSE ScaledDigits(10 * acc + ((10 * rem) \div den), (10 * rem) % den, den, digits - 1)

\* the characters of q / 10^4 with four decimals, after a minus sign if neg
FixedChars(neg, q) ==
    LET f == q % 10000
    IN  (IF neg THEN <<"-">> ELSE <<>>)
        \o IntChars(q \div 10000) \o <<".">>
        \o <<DigitChars[(f \div 1000) + 1], DigitChars[((f \div 100) % 10) + 1],
             DigitChars[((f \div 10) % 10) + 1], DigitChars[(f % 10) + 1]>>

\* f"{x:.4f}": rounded to four decimals, a tie going to the even digit
Format4f(x) ==
    LET a == RAbs(x)
    IN  FixedChars(x[1] < 0, ScaledDigits(a[1] \div a[2], a[1] % a[2], a[2], 4))

-----------------------------------------------------------------------------
(* The six operator patterns *)

\* the text s[i..] read while it is made of digits and dots: the index after it
NumRunEnd(s, i) ==
    CHOOSE j \in i..(Len(s) + 1) :
        /\ \A k \in i..(j - 1) : IsDigit(s[k]) \/ s[k] = "."
        /\ (j = Len(s) + 1 \/ ~(IsDigit(s[j]) \/ s[j] = "."))

\* \s+ read greedily from i: the index after it
SpaceRunEnd(s, i) ==
    CHOOSE j \in i..(Len(s) + 1) :
        /\ \A k \in i..(j - 1) : IsSpace(s[k])
        /\ (j = Len(s) + 1 \/ ~IsSpace(s[j]))

\* NUMBER_PATTERN = \d*\.?\d+ matches the whole of t
IsNumberText(t) ==
    /\ t # <<>>
    /\ IsDigit(t[Len(t)])
    /\ \A i \in 1..Len(t) : IsDigit(t[i]) \/ t[i] = "."
    /\ Cardinality({i \in 1..Len(t) : t[i] = "."}) <= 1

NoMatch == [ok |-> FALSE, pos |-> 0, nums |-> <<>>]

\* (NUMBER)\s+ repeated k times from index i: the groups and the index after
RECURSIVE MatchNums(_, _, _, _)
MatchNums(s, i, k, acc) ==
    The({
        IF IsNumberText(SubSeq(s, i, j - 1)) /\ j <= Len(s) /\ IsSpace(s[j])
        THEN The({IF k = 1
                  THEN [ok |-> TRUE, pos |-> e, nums |-> Append(acc, SubSeq(s, i, j - 1))]
                  ELSE MatchNums(s, e, k - 1, Append(acc, SubSeq(s, i, j - 1))) :
                  e \in {SpaceRunEnd(s, j)}})
        ELSE NoMatch :
        j \in {NumRunEnd(s, i)}})

\* the patterns: number of operands, operator token, trailing \b
PATTERN_RGB_NON_STROKING  == [n |-> 3, op |-> <<"r", "g">>, wb |-> FALSE]
PATTERN_RGB_STROKING      == [n |-> 3, op |-> <<"R", "G">>, wb |-> FALSE]
PATTERN_GRAY_NON_STROKING == [n |-> 1, op |-> <<"g">>, wb |-> TRUE]
PATTERN_GRAY_STROKING     == [n |-> 1, op |-> <<"G">>, wb |-> TRUE]
PATTERN_CMYK_NON_STROKING == [n |-> 4, op |-> <<"k">>, wb |-> TRUE]
PATTERN_CMYK_STROKING     == [n |-> 4, op |-> <<"K">>, wb |-> TRUE]

\* pattern.match(s, i): ok, the index after the match, the operand groups
MatchAt(pat, s, i) ==
    The({
        IF /\ m.ok
           /\ m.pos + Len(pat.op) - 1 <= Len(s)
           /\ SubSeq(s, m.pos, m.pos + Len(pat.op) - 1) = pat.op
           /\ (pat.wb => (m.pos + Len(pat.op) > Len(s)
                          \/ ~IsWord(s[m.pos + Len(pat.op)])))
        THEN [ok |-> TRUE, pos |-> m.pos + Len(pat.op), nums |-> m.nums]
        ELSE NoMatch :
        m \in {MatchNums(s, i, pat.n, <<>>)}})

-----------------------------------------------------------------------------
(* The replacement callbacks *)

replace_rgb(nums, operator) ==
    The({Format4f(n[1]) \o <<" ">> \o Format4f(n[2]) \o <<" ">> \o Format4f(n[3])
         \o <<" ">> \o operator :
         n \in {transform_rgb(ParseFloat(nums[1]), ParseFloat(nums[2]),
                              ParseFloat(nums[3]))}})

\* a Gray instruction rewritten as an RGB fill of three equal channels
replace_gray_as_rgb(nums, operator) ==
    The({t \o <<" ">> \o t \o <<" ">> \o t \o <<" ", "r", "g", " ">> :
         t \in {Format4f(transform_grayscale(ParseFloat(nums[1])))}})

replace_gray(nums, operator) ==
    Format4f(transform_grayscale(ParseFloat(nums[1]))) \o <<" ">> \o operator \o <<" ">>

replace_cmyk(nums, operator) ==
    The({Format4f(n[1]) \o <<" ">> \o Format4f(n[2]) \o <<" ">> \o Format4f(n[3])
         \o <<" ">> \o Format4f(n[4]) \o <<" ">> \o operator \o <<" ">> :
         n \in {transform_cmyk(ParseFloat(nums[1]), ParseFloat(nums[2]),
                               ParseFloat(nums[3]), ParseFloat(nums[4]))}})

\* the lambda handed to pattern.sub for the pass of this pattern
Replacement(pat, nums) ==
    IF pat.n = 3 THEN replace_rgb(nums, pat.op)
    ELSE IF pat.n = 1 THEN replace_gray(nums, pat.op)
    ELSE replace_cmyk(nums, pat.op)

\* pattern.search(s, i): the start of the leftmost match at or after i, or 0
\* (a match starts with a digit or a dot)
SearchFrom(pat, s, i) ==
    The({IF starts = {} THEN 0 ELSE CHOOSE j \in starts : \A k \in starts : j <= k :
         starts \in {{j \in i..Len(s) :
                         (IsDigit(s[j]) \/ s[j] = ".") /\ MatchAt(pat, s, j).ok}}})

\* pattern.sub(repl, s): leftmost non-overlapping matches, scanning from i
RECURSIVE SubFrom(_, _, _, _)
SubFrom(pat, s, i, acc) ==
    The({
        IF j = 0 THEN acc \o SubSeq(s, i, Len(s))
        ELSE The({SubFrom(pat, s, m.pos,
                          acc \o SubSeq(s, i, j - 1) \o Replacement(pat, m.nums)) :
                  m \in {MatchAt(pat, s, j)}}) :
        j \in {SearchFrom(pat, s, i)}})

Sub(pat, s) == SubFrom(pat, s, 1, <<>>)

\* the six passes in the order of _transform_content_stream
PassOrder ==
    <<PATTERN_RGB_NON_STROKING, PATTERN_RGB_STROKING,
      PATTERN_GRAY_NON_STROKING, PATTERN_GRAY_STROKING,
      PATTERN_CMYK_NON_STROKING, PATTERN_CMYK_STROKING>>

transform_content_stream(text) ==
    Sub(PassOrder[6], Sub(PassOrder[5], Sub(PassOrder[4],
        Sub(PassOrder[3], Sub(PassOrder[2], Sub(PassOrder[1], text))))))

-----------------------------------------------------------------------------
(* Initial state: a converter constructed with some theme, nothing run yet *)

Themes == {DEFAULT_BG_COLOR, <<40, 42, 54>>, <<255, 255, 255>>}

NoCall == [fn |-> "none", in |-> <<>>, out |-> <<>>]

Init ==
    /\ bg_color \in Themes
    /\ call = NoCall
    /\ content = <<>>
    /\ passes = {}
    /\ result = <<>>
    /\ caller = "none"
    /\ pc = "main"
    /\ doc = <<>>
    /\ pages = <<>>
    /\ cur = 0
    /\ half = 0
    /\ handed = <<>>
    /\ output_bytes = "none"
    /\ outfile = "absent"
    /\ exitcode = -1
    /\ raisedAt = "none"

-----------------------------------------------------------------------------
(* The colour policy called once on a point of a grid (the functions are
   pure: a second call in the same run adds nothing) *)

Grid(n) == {Rat(k, n) : k \in 0..n}

CallTransformRgb ==
    /\ call = NoCall
    /\ \E r \in Grid(GridN), g \in Grid(GridN), b \in Grid(GridN) :
           call' = [fn |-> "rgb", in |-> <<r, g, b>>, out |-> transform_rgb(r, g, b)]
    /\ UNCHANGED <<bg_color, streamVars, runVars>>

CallTransformGrayscale ==
    /\ call = NoCall
    /\ \E gray \in Grid(GrayN) :
           call' = [fn |-> "gray", in |-> <<gray>>, out |-> <<transform_grayscale(gray)>>]
    /\ UNCHANGED <<bg_color, streamVars, runVars>>

CallTransformCmyk ==
    /\ call = NoCall
    /\ \E c \in Grid(CmykN), m \in Grid(CmykN), y \in Grid(CmykN), k \in Grid(CmykN) :
           call' = [fn |-> "cmyk", in |-> <<c, m, y, k>>, out |-> transform_cmyk(c, m, y, k)]
    /\ UNCHANGED <<bg_color, streamVars, runVars>>

NextColor == CallTransformRgb \/ CallTransformGrayscale \/ CallTransformCmyk

SpecColor == Init /\ [][NextColor]_vars

AllInUnit(t) == \A i \in 1..Len(t) : InUnit(t[i])

\* C1 (as claimed): every component _transform_rgb returns for an input in
\* [0,1]^3 lies in [0,1], for every theme and whichever rule is selected.
C1_RgbOutputInUnit ==
    call.fn = "rgb" => AllInUnit(call.out)

\* C8 (as claimed): every component _transform_cmyk returns for an input in
\* [0,1]^4 lies in [0,1], and a transformed RGB of (0,0,0) gives c=m=y=0, k=1.
C8_CmykOutputInUnit ==
    call.fn = "cmyk" =>
        /\ AllInUnit(call.out)
        /\ LET r == RMul(RSub(R1, call.in[1]), RSub(R1, call.in[4]))
               g == RMul(RSub(R1, call.in[2]), RSub(R1, call.in[4]))
               b == RMul(RSub(R1, call.in[3]), RSub(R1, call.in[4]))
           IN  transform_rgb(r, g, b) = <<R0, R0, R0>> => call.out = <<R0, R0, R0, R1>>

\* the rule of _transform_rgb that corresponds to a band of _transform_grayscale
RuleOfBand(band) == IF band <= 2 THEN band ELSE band + 1

\* C10: for every theme and every gray v in [0,1] with v <= 0.93,
\* _transform_rgb(v,v,v) = (t,t,t) with t = _transform_grayscale(v), both
\* selecting the same band; for v > 0.93 Gray yields the theme's brightness
\* and RGB the theme's three channels.
C10_GrayAgreesWithRgb ==
    call.fn = "gray" =>
        LET v == call.in[1]
            t == call.out[1]
            n == transform_rgb(v, v, v)
        IN  /\ RuleOfBand(GrayBand(v)) = RgbRule(v, v, v)
            /\ IF RLe(v, WHITE_BRIGHTNESS_THRESHOLD)
               THEN n = <<t, t, t>>
               ELSE /\ t = calculate_brightness(BgChannel(1), BgChannel(2), BgChannel(3))
                    /\ n = <<BgChannel(1), BgChannel(2), BgChannel(3)>>

\* C10's case: the gray value sits on the 0.15 threshold and was mapped to 0.75
C10_Witness ==
    /\ call.fn = "gray"
    /\ call.in[1] = BLACK_BRIGHTNESS_THRESHOLD
    /\ call.out[1] = DARK_VALUE_BASE

-----------------------------------------------------------------------------
(* Content streams given to the rewriter *)

RECURSIVE JoinWith(_, _)
JoinWith(texts, sep) ==
    IF texts = <<>> THEN <<>>
    ELSE IF Len(texts) = 1 THEN texts[1]
    ELSE texts[1] \o sep \o JoinWith(Tail(texts), sep)

\* the stream of the end-to-end scenario: "1 1 1 rg 0 0 0 g 0.2 0.3 0.8 RG"
ScenarioStream ==
    <<"1", " ", "1", " ", "1", " ", "r", "g", " ", "0", " ", "0", " ", "0", " ", "g", " ", "0", ".", "2", " ", "0", ".", "3", " ", "0", ".", "8", " ", "R", "G">>

\* instructions with a wrong operand count, with malformed operand text, or
\* with an operator token that is not one of the six
MalformedStreams ==
    {<<"1", " ", "1", " ", "1", " ", "g">>,
      <<"1", " ", "1", " ", "1", " ", "G">>,
      <<"0", ".", "5", " ", "1", " ", "1", " ", "1", " ", "r", "g">>,
      <<"0", ".", "5", " ", "1", " ", "1", " ", "1", " ", "R", "G">>,
      <<"1", " ", "1", " ", "r", "g">>,
      <<"0", " ", "0", " ", "0", " ", "k">>,
      <<"1", " ", "1", " ", "1", " ", "1", " ", "1", " ", "K">>,
      <<"-", "1", " ", "g">>,
      <<"+", "0", ".", "5", " ", "G">>,
      <<"1", "e", "5", " ", "g">>,
      <<"1", ".", "2", ".", "3", " ", "g">>,
      <<"1", ".", " ", "g">>,
      <<"a", " ", "b", " ", "c", " ", "r", "g">>,
      <<"1", " ", "1", " ", "1", " ", "r", "g", "x">>,
      <<"1", " ", "1", " ", "1", " ", "R", "G", "B">>,
      <<"0", " ", "g", "s">>,
      <<"1", " ", "G", "x">>,
      <<"0", " ", "0", " ", "0", " ", "1", " ", "k", "k">>}

\* the operator tokens of the six kinds, in the order of PassOrder
Operators == [i \in 1..6 |-> PassOrder[i].op]

\* operands for one well-formed instruction of each kind (indexed like PassOrder)
OperandChoices ==
    { <<<<<<"1">>, <<"1">>, <<"1">>>>, <<<<"0", ".", "2">>, <<"0", ".", "3">>, <<"0", ".", "8">>>>, <<<<"0">>>>, <<<<"0", ".", "5">>>>,
        <<<<"0">>, <<"0">>, <<"0">>, <<"1">>>>, <<<<"0", ".", "7", "5">>, <<"0", ".", "7", "5">>, <<"0">>, <<"0">>>>>>,
      <<<<<<"0">>, <<"0">>, <<"0">>>>, <<<<"1">>, <<"0">>, <<"0">>>>, <<<<"1">>>>, <<<<".", "2", "5">>>>,
        <<<<".", "5">>, <<".", "2", "5">>, <<"0">>, <<"0", ".", "1">>>>, <<<<"0">>, <<"0">>, <<"0">>, <<"0">>>>>>,
      <<<<<<"0", ".", "9">>, <<"0", ".", "9">>, <<"0", ".", "1">>>>, <<<<"0">>, <<"0">>, <<"0", ".", "4">>>>, <<<<"0", ".", "9", "5">>>>, <<<<"0", ".", "1", "5">>>>,
        <<<<"1">>, <<"1">>, <<"1">>, <<"1">>>>, <<<<"0", ".", "1">>, <<"0", ".", "2">>, <<"0", ".", "3">>, <<"0", ".", "4">>>>>> }

\* the order in which the six kinds appear in the stream
KindOrders == {<<1, 2, 3, 4, 5, 6>>, <<6, 3, 2, 5, 1, 4>>}

\* the other instructions around the six: before the first, between two
\* neighbours, after the last.  The third choice shows a text string whose
\* characters read like a Gray instruction.
FillerChoices ==
    { <<<<"q">>, <<"B", "T">>, <<"/", "F", "1", " ", "1", "2", " ", "T", "f">>, <<"(", "H", "i", ")", " ", "T", "j">>, <<"E", "T">>, <<"0", " ", "0", " ", "m">>, <<"Q">>>>,
      <<<<"q">>, <<"2", " ", "w">>, <<"[", "3", " ", "2", "]", " ", "0", " ", "d">>, <<"1", "0", " ", "2", "0", " ", "l">>, <<"S">>, <<"/", "G", "S", "1", " ", "g", "s">>, <<"Q">>>>,
      <<<<"q">>, <<"B", "T">>, <<"/", "F", "1", " ", "1", "2", " ", "T", "f">>, <<"(", "1", " ", "g", ")", " ", "T", "j">>, <<"E", "T">>, <<"0", " ", "0", " ", "m">>, <<"Q">>>> }

Separators == {<<" ">>, <<"\n">>}

\* a stream as its parts: 7 other instructions interleaved with the six
\* colour instructions; a colour part is [kind |-> 1..6, nums |-> operands]
Parts(order, operands, fillers) ==
    [i \in 1..13 |->
        IF i % 2 = 1 THEN [kind |-> 0, nums |-> <<fillers[(i + 1) \div 2]>>]
        ELSE [kind |-> order[i \div 2], nums |-> operands[order[i \div 2]]]]

SixKindInputs ==
    {[parts |-> Parts(o, a, f), sep |-> sp] :
        o \in KindOrders, a \in OperandChoices, f \in FillerChoices, sp \in Separators}

\* the text of a part as written in the input
PartText(part) ==
    IF part.kind = 0 THEN part.nums[1]
    ELSE JoinWith(part.nums, <<" ">>) \o <<" ">> \o Operators[part.kind]

\* the text of a part after the rewrite: its own replacement, or itself
PartRewritten(part) ==
    IF part.kind = 0 THEN part.nums[1]
    ELSE Replacement(PassOrder[part.kind], part.nums)

Render(inp) == JoinWith([i \in 1..13 |-> PartText(inp.parts[i])], inp.sep)

ExpectedRewrite(inp) == JoinWith([i \in 1..13 |-> PartRewritten(inp.parts[i])], inp.sep)

SixKindStreams == {Render(inp) : inp \in SixKindInputs}

StreamInputs == {ScenarioStream} \cup MalformedStreams \cup SixKindStreams

-----------------------------------------------------------------------------
(* The rewriter called once on a stream *)

TransformContentStream ==
    /\ passes = {}
    /\ content = <<>>
    /\ \E s \in StreamInputs :
           /\ content' = s
           /\ result' = transform_content_stream(s)
    /\ passes' = 1..6
    /\ UNCHANGED <<bg_color, colorVars, runVars>>

NextStream == TransformContentStream

SpecStream == Init /\ [][NextStream]_vars

Rewritten == passes = 1..6 /\ content # <<>>

\* C2 (as claimed): with theme {0,0,0} the scenario stream is rewritten to
\* "0.0000 0.0000 0.0000 rg 0.9800 g 0.3090 0.4635 0.9200 RG": the rg triple
\* becomes the theme, the Gray instruction becomes 0.9800 with its operator,
\* the RG triple the brightened triple of rule 4, 4 decimals per channel.
C2_ScenarioAsClaimed ==
    (Rewritten /\ bg_color = <<0, 0, 0>> /\ content = ScenarioStream) =>
        result =
            <<"0", ".", "0", "0", "0", "0", " ", "0", ".", "0", "0", "0", "0", " ", "0", ".", "0", "0", "0", "0", " ", "r", "g", " ", "0", ".", "9", "8", "0", "0", " ", "g", " ", "0", ".", "3", "0", "9", "0", " ", "0", ".", "4", "6", "3", "5", " ", "0", ".", "9", "2", "0", "0", " ", "R", "G">>

\* C5 (as claimed): an instruction with the wrong operand count, with
\* malformed operand text or with an unrecognized operator is left untouched:
\* the output text equals the input text.
C5_MalformedUntouched ==
    (Rewritten /\ content \in MalformedStreams) => result = content

\* C6 (as claimed): in a stream with one well-formed instruction of each of the
\* six kinds among other instructions, exactly the six instructions are
\* replaced and every other character is identical in the output.
C6_OnlySixSubstringsChange ==
    \A inp \in SixKindInputs :
        (Rewritten /\ content = Render(inp)) => result = ExpectedRewrite(inp)

-----------------------------------------------------------------------------
(* The six passes applied one at a time, in any order *)

\* the six-kind streams whose parts are separated by one space
PassStreams == {Render(inp) : inp \in {x \in SixKindInputs : x.sep = <<" ">>}}

\* a caller hands a six-kind stream to the rewriter
LoadStream ==
    /\ content = <<>>
    /\ \E s \in PassStreams :
           /\ content' = s
           /\ result' = s
    /\ UNCHANGED <<bg_color, passes, colorVars, runVars>>

\* one of the statements content = PATTERN.sub(..., content), not yet run
ApplyPass(k) ==
    /\ content # <<>>
    /\ k \notin passes
    /\ result' = Sub(PassOrder[k], result)
    /\ passes' = passes \cup {k}
    /\ UNCHANGED <<bg_color, content, colorVars, runVars>>

NextPasses == LoadStream \/ \E k \in 1..6 : ApplyPass(k)

SpecPasses == Init /\ [][NextPasses]_vars

\* the passes of a set applied in the order of _transform_content_stream
InSourceOrder(done, text) ==
    LET Step(k, t) == IF k \in done THEN Sub(PassOrder[k], t) ELSE t
        t1 == Step(1, text)
        t2 == Step(2, t1)
        t3 == Step(3, t2)
        t4 == Step(4, t3)
        t5 == Step(5, t4)
    IN  Step(6, t5)

\* C7: on a stream with all six kinds and non-adjacent spans, the six passes
\* applied in any permutation give the text _transform_content_stream gives;
\* after any part of a permutation the text is the one the same passes give
\* in the source's order (no pass matches or alters what another pass wrote
\* or another kind's instruction).
C7_PassOrderIndependent ==
    content # <<>> =>
        /\ result = InSourceOrder(passes, content)
        /\ passes = 1..6 => result = transform_content_stream(content)

\* C7's case: all six passes ran on a six-kind stream and changed it
C7_Witness ==
    /\ passes = 1..6
    /\ content \in PassStreams
    /\ result # content

-----------------------------------------------------------------------------
(* The conversion run: main, convert_file, convert_bytes, _process_page *)

\* a page's /Contents: absent, one stream, or an array of streams
NoContents == [kind |-> "absent", streams |-> <<>>]

\* the pages a document is made of: Contents, MediaBox, and the underlays
\* composited beneath the content (none in an input document)
PageChoices ==
    { [Contents |-> NoContents, MediaBox |-> <<0, 0, 612, 792>>, underlay |-> <<>>],
      [Contents |-> [kind |-> "stream", streams |-> <<<<"1", " ", "1", " ", "1", " ", "r", "g">>>>],
       MediaBox |-> <<10, 20, 110, 220>>, underlay |-> <<>>],
      [Contents |-> [kind |-> "array", streams |-> <<<<"0", " ", "g">>, <<"0", " ", "0", " ", "0", " ", "1", " ", "K">>>>],
       MediaBox |-> <<0, 0, 612, 792>>, underlay |-> <<>>] }

RECURSIVE SeqsUpTo(_, _)
SeqsUpTo(S, n) ==
    IF n = 0 THEN {<<>>}
    ELSE LET shorter == SeqsUpTo(S, n - 1)
         IN  shorter \cup {Append(q, x) : q \in {t \in shorter : Len(t) = n - 1}, x \in S}

\* the documents an input file may hold
Docs == {d \in SeqsUpTo(PageChoices, MaxPages) : d # <<>>}

NotHanded == [given |-> FALSE, text |-> <<>>]

\* convert_file opening the output path before the conversion
ConvertFileStepsOutputFirst == <<"read_input", "open_output", "convert_bytes", "write_output">>

\* the statements of convert_file, in order
ConvertFileSteps == <<"read_input", "convert_bytes", "open_output", "write_output">>

\* _process_page adding the background before transforming the colours
ProcessPageStepsUnderlayFirst == <<"underlay", "rewrite">>

\* the two halves of _process_page, in order
ProcessPageSteps == <<"rewrite", "underlay">>

\* where control goes to run a step of convert_file
Goto(step) == IF step = "convert_bytes" THEN "open_pdf" ELSE step

\* where control goes when a step of convert_file has completed
AfterStep(step) ==
    LET i == CHOOSE j \in 1..Len(ConvertFileSteps) : ConvertFileSteps[j] = step
    IN  IF i = Len(ConvertFileSteps) THEN "done" ELSE Goto(ConvertFileSteps[i + 1])

\* the test for a Contents entry left out
ContentsAssumedInPage(page) == TRUE

\* Name.Contents in page
ContentsInPage(page) == page.Contents.kind # "absent"

\* all_content: the parts read from an Array, or from a single stream
AllContent(contents) ==
    IF contents.kind = "array" THEN contents.streams
    ELSE IF contents.kind = "stream" THEN contents.streams
    ELSE <<>>

\* len(sys.argv) < 3: usage message, exit code 1
MainUsage ==
    /\ pc = "main"
    /\ pc' = "exit"
    /\ exitcode' = 1
    /\ UNCHANGED <<bg_color, colorVars, streamVars, caller, doc, pages, cur, half,
                   handed, output_bytes, outfile, raisedAt>>

\* converter = PDFDarkModeConverter(preserve_images=True): the default theme;
\* converter.convert_file(input_path, output_path)
MainStart ==
    /\ pc = "main"
    /\ bg_color' = DEFAULT_BG_COLOR
    /\ caller' = "main"
    /\ pc' = Goto(ConvertFileSteps[1])
    /\ UNCHANGED <<colorVars, streamVars, doc, pages, cur, half, handed, output_bytes,
                   outfile, exitcode, raisedAt>>

\* convert_file called on the constructed converter by code that imported the
\* module (any theme)
ConvertFile ==
    /\ pc = "main"
    /\ caller' = "api"
    /\ pc' = Goto(ConvertFileSteps[1])
    /\ UNCHANGED <<bg_color, colorVars, streamVars, doc, pages, cur, half, handed,
                   output_bytes, outfile, exitcode, raisedAt>>

\* with open(input_path, 'rb') as f: input_bytes = f.read()
ReadInput ==
    /\ pc = "read_input"
    /\ pc' = AfterStep("read_input")
    /\ UNCHANGED <<bg_color, colorVars, streamVars, caller, doc, pages, cur, half,
                   handed, output_bytes, outfile, exitcode, raisedAt>>

\* pdf = Pdf.open(...): the file holds some document
OpenPdf ==
    /\ pc = "open_pdf"
    /\ \E d \in Docs :
           /\ doc' = d
           /\ pages' = d
           /\ handed' = [i \in 1..Len(d) |-> NotHanded]
    /\ cur' = 1
    /\ half' = 1
    /\ pc' = "page"
    /\ UNCHANGED <<bg_color, colorVars, streamVars, caller, output_bytes, outfile,
                   exitcode, raisedAt>>

\* control after a half of _process_page: the next half, the next page of the
\* loop, or pdf.save
Advance ==
    IF half < Len(ProcessPageSteps)
    THEN half' = half + 1 /\ UNCHANGED <<cur, pc>>
    ELSE /\ half' = 1
         /\ cur' = cur + 1
         /\ pc' = IF cur < Len(pages) THEN "page" ELSE "save"

\* _process_page, first half: the colours of the page's content
RewritePage ==
    /\ pc = "page"
    /\ ProcessPageSteps[half] = "rewrite"
    /\ IF ContentsInPage(pages[cur])
       THEN LET combined_content == JoinWith(AllContent(pages[cur].Contents), <<"\n">>)
                modified_content == transform_content_stream(combined_content)
            IN  /\ handed' = [handed EXCEPT ![cur] = [given |-> TRUE, text |-> combined_content]]
                /\ pages' = [pages EXCEPT ![cur].Contents =
                                [kind |-> "stream", streams |-> <<modified_content>>]]
       ELSE UNCHANGED <<handed, pages>>
    /\ Advance
    /\ UNCHANGED <<bg_color, colorVars, streamVars, caller, doc, output_bytes,
                   outfile, exitcode, raisedAt>>

\* _process_page, second half: _create_background_pdf and page.add_underlay
AddUnderlay ==
    /\ pc = "page"
    /\ ProcessPageSteps[half] = "underlay"
    /\ LET mediabox == pages[cur].MediaBox
           width  == mediabox[3] - mediabox[1]
           height == mediabox[4] - mediabox[2]
           bg_page == [fill |-> <<BgChannel(1), BgChannel(2), BgChannel(3)>>,
                       rect |-> <<0, 0, width, height>>]
       IN  pages' = [pages EXCEPT ![cur].underlay = Append(@, bg_page)]
    /\ Advance
    /\ UNCHANGED <<bg_color, colorVars, streamVars, caller, doc, handed,
                   output_bytes, outfile, exitcode, raisedAt>>

\* pdf.save(output); return output.getvalue()
Save ==
    /\ pc = "save"
    /\ output_bytes' = "pdf"
    /\ pc' = AfterStep("convert_bytes")
    /\ UNCHANGED <<bg_color, colorVars, streamVars, caller, doc, pages, cur, half,
                   handed, outfile, exitcode, raisedAt>>

\* open(output_path, 'wb'): the file exists and is empty
OpenOutput ==
    /\ pc = "open_output"
    /\ outfile' = "empty"
    /\ pc' = AfterStep("open_output")
    /\ UNCHANGED <<bg_color, colorVars, streamVars, caller, doc, pages, cur, half,
                   handed, output_bytes, exitcode, raisedAt>>

\* f.write(output_bytes)
WriteOutput ==
    /\ pc = "write_output"
    /\ outfile' = "written"
    /\ pc' = AfterStep("write_output")
    /\ UNCHANGED <<bg_color, colorVars, streamVars, caller, doc, pages, cur, half,
                   handed, output_bytes, exitcode, raisedAt>>

\* any of these statements may raise (I/O error, damaged file, missing
\* MediaBox, ...); nothing in convert_file or convert_bytes catches it, so the
\* exception reaches the caller of convert_file
Raise ==
    /\ pc \in {"read_input", "open_pdf", "page", "save", "open_output", "write_output"}
    /\ raisedAt' = pc
    /\ pc' = IF caller = "main" THEN "except" ELSE "propagated"
    /\ UNCHANGED <<bg_color, colorVars, streamVars, caller, doc, pages, cur, half,
                   handed, output_bytes, outfile, exitcode>>

\* except Exception as e: print the error, sys.exit(1)
MainExcept ==
    /\ pc = "except"
    /\ exitcode' = 1
    /\ pc' = "exit"
    /\ UNCHANGED <<bg_color, colorVars, streamVars, caller, doc, pages, cur, half,
                   handed, output_bytes, outfile, raisedAt>>

\* convert_file returned: print SUCCESS, sys.exit(0)
MainSuccess ==
    /\ pc = "done"
    /\ caller = "main"
    /\ exitcode' = 0
    /\ pc' = "exit"
    /\ UNCHANGED <<bg_color, colorVars, streamVars, caller, doc, pages, cur, half,
                   handed, output_bytes, outfile, raisedAt>>

NextRun ==
    \/ MainUsage \/ MainStart \/ ConvertFile \/ ReadInput \/ OpenPdf \/ RewritePage \/ AddUnderlay
    \/ Save \/ OpenOutput \/ WriteOutput \/ Raise \/ MainExcept \/ MainSuccess

SpecRun == Init /\ [][NextRun]_vars

Theme == <<BgChannel(1), BgChannel(2), BgChannel(3)>>

\* C3: for every page of every run, the colour rewrite of the page is
\* computed and installed before the underlay is requested and composited;
\* the text handed to the rewriter is the page's own parts joined by newlines,
\* with nothing of the underlay in it; the underlay's fill is the theme colour.
C3_RewriteBeforeUnderlay ==
    \A i \in 1..Len(pages) :
        /\ (pages[i].underlay # <<>> /\ doc[i].Contents.kind # "absent") =>
               /\ handed[i].given
               /\ pages[i].Contents =
                      [kind |-> "stream",
                       streams |-> <<transform_content_stream(handed[i].text)>>]
        /\ handed[i].given =>
               handed[i].text = JoinWith(doc[i].Contents.streams, <<"\n">>)
        /\ \A u \in 1..Len(pages[i].underlay) : pages[i].underlay[u].fill = Theme

\* C3's case: a page with two content parts has been rewritten and has its underlay
C3_Witness ==
    \E i \in 1..Len(pages) :
        /\ doc[i].Contents.kind = "array"
        /\ handed[i].given
        /\ pages[i].Contents.streams # doc[i].Contents.streams
        /\ Len(pages[i].underlay) = 1

\* C4: if opening the document, processing a page or saving raises, the
\* exception reaches the caller of convert_file (main then exits with code 1)
\* and the output path is never opened for writing; the output file is
\* written only after every page was processed and the document serialized.
C4_FailsAtomically ==
    /\ raisedAt \in {"read_input", "open_pdf", "page", "save"} =>
           /\ outfile = "absent"
           /\ pc = (IF caller # "main" THEN "propagated"
                    ELSE IF exitcode = 1 THEN "exit" ELSE "except")
           /\ exitcode \in {-1, 1}
    /\ outfile # "absent" =>
           /\ output_bytes = "pdf"
           /\ cur = Len(pages) + 1
           /\ \A i \in 1..Len(pages) : pages[i].underlay # <<>>
    /\ (exitcode = 0 \/ pc = "done") => (outfile = "written" /\ raisedAt = "none")

\* C4's case: the second page raised after the first was processed; main
\* exited with 1 and the output path was never opened
C4_Witness ==
    /\ raisedAt = "page"
    /\ cur = 2
    /\ pc = "exit"
    /\ exitcode = 1
    /\ outfile = "absent"

\* C9: a page without a Contents entry is processed without error: no text is
\* handed to the rewriter, no content stream is installed, and exactly one
\* underlay in the theme colour, sized from the media box, is composited; in a
\* successful run every page has exactly one underlay.
C9_PageWithoutContents ==
    /\ \A i \in 1..Len(pages) :
           (i < cur /\ doc[i].Contents.kind = "absent") =>
               /\ ~handed[i].given
               /\ pages[i].Contents = NoContents
               /\ Len(pages[i].underlay) = 1
               /\ pages[i].underlay[1] =
                      [fill |-> Theme,
                       rect |-> <<0, 0, doc[i].MediaBox[3] - doc[i].MediaBox[1],
                                  doc[i].MediaBox[4] - doc[i].MediaBox[2]>>]
    /\ pc \in {"done", "exit"} /\ raisedAt = "none" =>
           \A i \in 1..Len(pages) : Len(pages[i].underlay) = 1

\* C9's case: a run succeeded on a document whose first page has no Contents
\* and whose second page has
C9_Witness ==
    /\ pc = "done"
    /\ bg_color = <<40, 42, 54>>
    /\ Len(pages) = 2
    /\ doc[1].Contents.kind = "absent"
    /\ doc[2].Contents.kind = "stream"
    /\ Len(pages[1].underlay) = 1

=============================================================================
